---- MODULE Spec2Model ----
(***************************************************************************)
(* Model of the Dynatrace -> CA SDM webhook bridge (src/webhook.go).       *)
(*                                                                         *)
(* State: the backing file storage.json, the process-wide SOAP client      *)
(* (its Body field, shared by every request), the ticketing backend, and   *)
(* one record per request handler (SDMHandler runs in one goroutine per    *)
(* inbound request).  One action per step of SDMHandler that touches       *)
(* shared state: each client.Call, each client.Unmarshal, each system      *)
(* call on storage.json, and the final write of the Response.              *)
(*                                                                         *)
(* Modelling assumptions, stated once:                                     *)
(*  - file system calls on storage.json succeed, except os.Open on a file  *)
(*    that does not exist (the case the code handles);                     *)
(*  - try.Do is gopkg.in/matryer/try.v1: it calls fn with attempt = 1, 2,  *)
(*    ... and stops when fn returns (false, _) or (_, nil); after a        *)
(*    failure it increments attempt and, once attempt > MaxRetries,        *)
(*    returns its own error "exceeded retry limit";                        *)
(*  - strings are modelled as tuples, the empty string as << >>.           *)
(***************************************************************************)
EXTENDS Integers, Sequences, FiniteSets, TLC

\* ------------------------------------------------------------------ bounds
\* try.MaxRetries (50 in main) scaled down.
MaxRetries == 2
\* Number of tickets the backend accepts in one behaviour.
MaxTickets == 2

\* The goroutines that run SDMHandler at the same time; each serves one
\* inbound request after the other.
Handlers == {"h1", "h2"}
ProblemIDs == {"P1", "P2"}
\* ProblemIDs in the byte order json.Marshal writes map keys in.
SortedIDs == <<"P1", "P2">>
States == {"OPEN", "RESOLVED", "MERGED"}

\* ------------------------------------------------------------------ values
EmptyStr == << >>
\* A nil error, the error try.Do returns at its limit, and the error of a
\* remote operation: op is the SOAP method, kind is "transport" (client.Call
\* failed) or "fault" (client.Unmarshal failed).
NoErr == << >>
ErrMaxRetriesReached == <<"exceeded retry limit">>
RemoteErr(op, kind) == <<op, kind>>

\* A *CreateRequestResponse that is nil.
NilTicket == [NewRequestHandle |-> <<"nil">>, NewRequestNumber |-> <<"nil">>]
Ticket(n) == [NewRequestHandle |-> <<"cr", n>>, NewRequestNumber |-> <<"INC", n>>]

\* Response{} and the responses SDMHandler builds.
ZeroResponse == [Error |-> FALSE, Message |-> EmptyStr]
ParseErrorResponse ==
    [Error |-> TRUE,
     Message |-> <<"Could not parse the problem from the request body: ", <<"decode">>>>]
OpenedResponse(t) ==
    [Error |-> FALSE, Message |-> <<"Opened ticket: ", t.NewRequestNumber>>]
OpenFailedResponse(e) ==
    [Error |-> TRUE,
     Message |-> <<"Could not open ticket after ", MaxRetries, " tries, error: ", e>>]
ClosedResponse(t) ==
    [Error |-> FALSE, Message |-> <<"Closed ticket: ", t.NewRequestNumber>>]
CloseFailedResponse(t, e) ==
    [Error |-> TRUE,
     Message |-> <<"Could not close ticket ", t.NewRequestNumber, " after ",
                   MaxRetries, " tries, error: ", e>>]

\* Inbound request bodies: one that json.Decode rejects, and Problems.
BadBody == [bad |-> TRUE, ProblemID |-> "P1", State |-> "MERGED"]
Problems == [bad : {FALSE}, ProblemID : ProblemIDs, State : States]
Bodies == {BadBody} \cup Problems

\* ------------------------------------------------------------ storage.json
\* Contents of storage.json.  kind is one of
\*   absent        the file does not exist
\*   empty         zero bytes
\*   garbage       bytes that are not JSON
\*   null          the JSON text null
\*   noproblems    the JSON text {}
\*   nullproblems  {"problems": null}
\*   doc           {"problems": {k1: {...}, k2: {...}}}, the members in entries
FileOf(kind, entries) == [kind |-> kind, entries |-> entries]
AbsentFile == FileOf("absent", << >>)
EmptyFile == FileOf("empty", << >>)
InitialFiles ==
    {FileOf(k, << >>) :
        k \in {"absent", "empty", "garbage", "null", "noproblems", "nullproblems"}}

\* A Go map[string]CreateRequestResponse: nil, or a function on its keys.
EmptyFcn == [k \in {} |-> NilTicket]
NilMap == [isnil |-> TRUE, m |-> EmptyFcn]
MapOf(f) == [isnil |-> FALSE, m |-> f]
EmptyMap == MapOf(EmptyFcn)

RECURSIVE decodeEntries(_, _)
\* json.Unmarshal of the members of "problems", left to right: a later
\* member with the same key replaces an earlier one.
decodeEntries(entries, acc) ==
    IF entries = << >> THEN acc
    ELSE LET e == Head(entries)
             rest == [k \in DOMAIN acc \ {e.key} |-> acc[k]]
         IN decodeEntries(Tail(entries),
                          rest @@ (e.key :> [NewRequestHandle |-> e.NewRequestHandle,
                                             NewRequestNumber |-> e.NewRequestNumber]))

\* json.Unmarshal(byteValue, &storage) followed by the reset on error
\* (webhook.go 194-198 and 225-229): the Storage.Problems the caller holds.
loadStorage(f) ==
    CASE f.kind \in {"empty", "garbage"} -> EmptyMap
      [] f.kind \in {"null", "noproblems", "nullproblems"} -> NilMap
      [] f.kind = "doc" -> MapOf(decodeEntries(f.entries, EmptyFcn))

\* marshalStorage that writes the first key only.
marshalStorageFirstKey(s) ==
    IF s.isnil THEN FileOf("nullproblems", << >>)
    ELSE LET keys == SelectSeq(SortedIDs, LAMBDA k : k \in DOMAIN s.m)
         IN FileOf("doc",
                   [i \in 1..(IF Len(keys) > 0 THEN 1 ELSE 0) |->
                       [key |-> keys[i],
                        NewRequestHandle |-> s.m[keys[i]].NewRequestHandle,
                        NewRequestNumber |-> s.m[keys[i]].NewRequestNumber]])

\* json.MarshalIndent(storage, "", " "): map keys are written sorted.
marshalStorage(s) ==
    IF s.isnil THEN FileOf("nullproblems", << >>)
    ELSE LET keys == SelectSeq(SortedIDs, LAMBDA k : k \in DOMAIN s.m)
         IN FileOf("doc",
                   [i \in 1..Len(keys) |->
                       [key |-> keys[i],
                        NewRequestHandle |-> s.m[keys[i]].NewRequestHandle,
                        NewRequestNumber |-> s.m[keys[i]].NewRequestNumber]])

\* storage.Problems[problem.ProblemID], nil when the key is missing.
lookupTicket(s, id) ==
    IF ~s.isnil /\ id \in DOMAIN s.m THEN s.m[id] ELSE NilTicket

\* What a lookup of id finds in a storage.json holding f.
storedTicket(f, id) ==
    IF f.kind = "absent" THEN NilTicket ELSE lookupTicket(loadStorage(f), id)
\* 1 when f and g differ in what a lookup of some problemID finds, else 0.
mappingChange(f, g) ==
    IF \E id \in ProblemIDs : storedTicket(f, id) # storedTicket(g, id) THEN 1 ELSE 0

\* storage.Problems[problem.ProblemID] = *ticket on a map that is not nil.
assignTicket(s, id, t) ==
    MapOf([k \in (DOMAIN s.m) \cup {id} |-> IF k = id THEN t ELSE s.m[k]])

\* ------------------------------------------------------------------ state
VARIABLES
    file,        \* contents of storage.json
    clientBody,  \* client.Body of the process-wide *gosoap.Client
    nTickets,    \* backend: number of requests created so far
    closed,      \* backend: numbers of the requests set to status RE
    nEvents,     \* inbound requests received so far
    lastWriter,  \* history: the handler that last changed storage.json
    upserted,    \* history: per problemID, what the last completed upsert stored
    hs           \* per handler: the locals of its SDMHandler invocation

vars == <<file, clientBody, nTickets, closed, nEvents, lastWriter, upserted, hs>>

NoBody == [op |-> "none", of |-> "none", fault |-> FALSE, ret |-> EmptyStr]
ResponseBody(op, h, ret) == [op |-> op, of |-> h, fault |-> FALSE, ret |-> ret]
FaultBody(op, h) == [op |-> op, of |-> h, fault |-> TRUE, ret |-> EmptyStr]

\* No remote call with attribute parameters has been sent.
NoParams == [creatorHandle |-> EmptyStr, attrVals |-> << >>, attributes |-> << >>]

\* The locals of one invocation.  ev numbers the request it serves, pc is
\* the position in SDMHandler; err is
\* what try.Do returned and ferr what the last finished attempt returned;
\* calls (the remote calls of the current attempt), loginRet and createRet
\* (what the backend answered to the current attempt's login and
\* createRequest), invocations and failures (of the flow), accepted
\* (createRequest calls the backend accepted), sent (the attribute
\* parameters of the current attempt's createRequest or updateObject), opened (opens of
\* storage.json) and wrote (steps that changed what the store maps some
\* problemID to) are history.
InitHandler ==
    [pc |-> "idle", ev |-> 0, problem |-> BadBody,
     attempt |-> 0, ferr |-> NoErr, err |-> NoErr,
     l |-> EmptyStr, hd |-> EmptyStr, ticket |-> NilTicket,
     storage |-> EmptyMap, resp |-> ZeroResponse, status |-> 0,
     out |-> << >>, panicked |-> FALSE,
     calls |-> << >>, loginRet |-> EmptyStr, createRet |-> NilTicket,
     invocations |-> 0, failures |-> 0, accepted |-> 0, opened |-> 0, wrote |-> 0,
     sent |-> NoParams]

\* The process starts with whatever storage.json holds; on a first run the
\* file does not exist.
InitWith(files) ==
    /\ file \in files
    /\ clientBody = NoBody
    /\ nTickets = 0
    /\ closed = {}
    /\ nEvents = 0
    /\ lastWriter = "none"
    /\ upserted = [id \in ProblemIDs |-> storedTicket(file, id)]
    /\ hs = [h \in Handlers |-> InitHandler]

Init == InitWith({AbsentFile})
InitAny == InitWith(InitialFiles)

\* ------------------------------------------------------------------ try.Do
\* One turn of try.Do's loop after fn(attempt) returned (cont, err): stop on
\* success or when fn asks to; otherwise count the attempt and give up with
\* errMaxRetriesReached once attempt exceeds MaxRetries.
tryDo(attempt, cont, err) ==
    IF ~cont \/ err = NoErr
    THEN [again |-> FALSE, attempt |-> attempt, err |-> err]
    ELSE IF attempt + 1 > MaxRetries
         THEN [again |-> FALSE, attempt |-> attempt + 1, err |-> ErrMaxRetriesReached]
         ELSE [again |-> TRUE, attempt |-> attempt + 1, err |-> err]

\* openAttemptDone with a closure that returns (false, err) at 124: try.Do
\* does not try again.
openAttemptDoneNoRetry(r, t, e) ==
    LET d == tryDo(r.attempt, FALSE, e)
        r1 == [r EXCEPT !.ticket = t, !.ferr = e, !.err = d.err,
                        !.attempt = d.attempt,
                        !.failures = IF e # NoErr THEN @ + 1 ELSE @]
    IN IF d.err # NoErr
       THEN [r1 EXCEPT !.pc = "respond", !.status = 500,
                       !.resp = OpenFailedResponse(d.err)]
       ELSE [r1 EXCEPT !.pc = "st_open", !.resp = OpenedResponse(t)]

\* SDMHandler 119-143: the closure around openTicket returned (t, e) to
\* try.Do; r is the handler's record, the result its next record.
openAttemptDone(r, t, e) ==
    LET d == tryDo(r.attempt, e # NoErr, e)
        r1 == [r EXCEPT !.ticket = t, !.ferr = e, !.err = d.err,
                        !.attempt = d.attempt,
                        !.failures = IF e # NoErr THEN @ + 1 ELSE @]
    IN IF d.again THEN [r1 EXCEPT !.pc = "o_login", !.ferr = NoErr, !.err = NoErr]
       ELSE IF d.err # NoErr
            THEN [r1 EXCEPT !.pc = "respond", !.status = 500,
                            !.resp = OpenFailedResponse(d.err)]
            ELSE [r1 EXCEPT !.pc = "st_open", !.resp = OpenedResponse(t)]

\* SDMHandler 149-171: the closure around closeTicket returned e to try.Do.
closeAttemptDone(r, e) ==
    LET d == tryDo(r.attempt, e # NoErr, e)
        r1 == [r EXCEPT !.ferr = e, !.err = d.err, !.attempt = d.attempt,
                        !.failures = IF e # NoErr THEN @ + 1 ELSE @]
    IN IF d.again THEN [r1 EXCEPT !.pc = "c_login", !.ferr = NoErr, !.err = NoErr]
       ELSE IF d.err # NoErr
            THEN [r1 EXCEPT !.pc = "respond", !.status = 500,
                            !.resp = CloseFailedResponse(r.ticket, d.err)]
            ELSE [r1 EXCEPT !.pc = "respond", !.status = 200,
                            !.resp = ClosedResponse(r.ticket)]

\* openTicket or closeTicket returned (nil, e).
attemptFailed(r, e) ==
    IF r.problem.State = "OPEN" THEN openAttemptDone(r, NilTicket, e)
    ELSE closeAttemptDone(r, e)

\* --------------------------------------------------------- SDMHandler entry
\* The invocation is over: the locals of openTicket, closeTicket and the
\* store functions are gone.
finished(r) ==
    [r EXCEPT !.pc = "done", !.l = EmptyStr, !.hd = EmptyStr, !.calls = << >>,
              !.loginRet = EmptyStr, !.storage = EmptyMap, !.sent = NoParams]

\* dispatch without the return of 110: after a parse error the handler goes
\* on to the Encode of 174.
dispatchParseFallsThrough(r) ==
    IF r.problem.bad
    THEN [r EXCEPT !.status = 400, !.resp = ParseErrorResponse,
                   !.out = <<ParseErrorResponse>>, !.pc = "respond"]
    ELSE IF r.problem.State = "OPEN"
         THEN [r EXCEPT !.pc = "o_login", !.attempt = 1]
         ELSE IF r.problem.State = "RESOLVED"
              THEN [r EXCEPT !.pc = "lk_open"]
              ELSE [r EXCEPT !.pc = "respond"]

\* dispatch with a plain else where 144 tests for RESOLVED.
dispatchElseResolved(r) ==
    IF r.problem.bad
    THEN finished([r EXCEPT !.status = 400, !.resp = ParseErrorResponse,
                            !.out = <<ParseErrorResponse>>])
    ELSE IF r.problem.State = "OPEN"
         THEN [r EXCEPT !.pc = "o_login", !.attempt = 1]
         ELSE [r EXCEPT !.pc = "lk_open"]

\* SDMHandler 94-117, 144-146: decode the body and dispatch on State.
dispatch(r) ==
    IF r.problem.bad
    THEN finished([r EXCEPT !.status = 400, !.resp = ParseErrorResponse,
                            !.out = <<ParseErrorResponse>>])
    ELSE IF r.problem.State = "OPEN"
         THEN [r EXCEPT !.pc = "o_login", !.attempt = 1]
         ELSE IF r.problem.State = "RESOLVED"
              THEN [r EXCEPT !.pc = "lk_open"]
              ELSE [r EXCEPT !.pc = "respond"]

\* The HTTP layer hands the limit-th request at most to a free goroutine.
Receive(h, body, limit) ==
    /\ hs[h].pc \in {"idle", "done"}
    /\ nEvents < limit
    /\ nEvents' = nEvents + 1
    /\ hs' = [hs EXCEPT ![h] =
                 dispatch([InitHandler EXCEPT !.ev = nEvents + 1, !.problem = body])]
    /\ UNCHANGED <<file, clientBody, nTickets, closed, lastWriter, upserted>>

\* SDMHandler 174: json.NewEncoder(w).Encode(resp).
Respond(h) ==
    /\ hs[h].pc = "respond"
    /\ hs' = [hs EXCEPT ![h] = finished([@ EXCEPT !.out = Append(@, hs[h].resp)])]
    /\ UNCHANGED <<file, clientBody, nTickets, closed, nEvents, lastWriter, upserted>>

\* ------------------------------------------------------- remote operations
\* Every remote operation is client.Call (the request goes out, the response
\* body is left in client.Body) followed by client.Unmarshal (client.Body is
\* decoded); the client is one object for the whole process.
\*
\* The backend: a session is valid when its token is not empty; login gives
\* a fresh token per call; createRequest numbers the requests 1, 2, ...
Outcomes == {"transport", "fault", "ok"}
Ops == {"login", "getHandleForUserid", "createRequest", "updateObject"}
\* Environments: the outcomes each operation can have.
AnyOutcome == [op \in Ops |-> Outcomes]
CreateAnswered == [op \in Ops |-> IF op = "updateObject" THEN Outcomes ELSE {"ok"}]
SessionToken(r) == <<"sid", r.ev, r.attempt>>
OperatorHandle == <<"cnt", "operator">>
ZeroTicket == [NewRequestHandle |-> EmptyStr, NewRequestNumber |-> EmptyStr]
IsRequestHandle(x) == Len(x) = 2 /\ x[1] = "cr"

\* The record of a handler that issues a call: history only.
issued(r, op, sid) ==
    [r EXCEPT !.calls = Append(@, [op |-> op, sid |-> sid, ok |-> FALSE])]
\* The record of a handler whose last call returned without error.
returned(r) ==
    [r EXCEPT !.calls = [@ EXCEPT ![Len(@)] = [@ EXCEPT !.ok = TRUE]]]

\* xml.Unmarshal(client.Body, v): an element v does not name is skipped and
\* a field without its element keeps its zero value.
decodeBody(body, op, zero) == IF body.op = op THEN body.ret ELSE zero

\* login 259-270: client.Call("login", params); the first call of an attempt
\* of openTicket (379) or closeTicket (340).
loginCall(h, o) ==
    LET r == hs[h]
        r0 == issued([r EXCEPT !.calls = << >>, !.invocations = @ + 1,
                               !.ferr = NoErr, !.loginRet = EmptyStr,
                               !.createRet = NilTicket, !.sent = NoParams,
                               !.l = EmptyStr, !.hd = EmptyStr],
                     "login", EmptyStr)
        pcU == IF r.pc = "o_login" THEN "o_login_u" ELSE "c_login_u"
    IN /\ r.pc \in {"o_login", "c_login"}
       /\ CASE o = "transport" ->
                 /\ hs' = [hs EXCEPT ![h] = attemptFailed(r0, RemoteErr("login", "transport"))]
                 /\ UNCHANGED clientBody
            [] o = "fault" ->
                 /\ hs' = [hs EXCEPT ![h] = [r0 EXCEPT !.pc = pcU]]
                 /\ clientBody' = FaultBody("login", h)
            [] o = "ok" ->
                 /\ hs' = [hs EXCEPT ![h] =
                              [r0 EXCEPT !.pc = pcU, !.loginRet = SessionToken(r)]]
                 /\ clientBody' = ResponseBody("login", h, SessionToken(r))
       /\ UNCHANGED <<file, nTickets, closed, nEvents, lastWriter, upserted>>

\* login 271-277: client.Unmarshal(&loginResponse).
loginUnmarshal(h) ==
    LET r == hs[h]
    IN /\ r.pc \in {"o_login_u", "c_login_u"}
       /\ hs' = [hs EXCEPT ![h] =
                    IF clientBody.fault
                    THEN attemptFailed(r, RemoteErr("login", "fault"))
                    ELSE [returned(r) EXCEPT
                             !.l = decodeBody(clientBody, "login", EmptyStr),
                             !.pc = IF r.pc = "o_login_u" THEN "o_gh" ELSE "c_uo"]]
       /\ UNCHANGED <<file, clientBody, nTickets, closed, nEvents, lastWriter, upserted>>

\* getHandle 239-248 called from openTicket 389.
getHandleCall(h, o) ==
    LET r == hs[h]
        r0 == issued(r, "getHandleForUserid", r.l)
    IN /\ r.pc = "o_gh"
       /\ CASE o = "transport" ->
                 /\ hs' = [hs EXCEPT ![h] =
                              attemptFailed(r0, RemoteErr("getHandleForUserid", "transport"))]
                 /\ UNCHANGED clientBody
            [] o = "fault" ->
                 /\ hs' = [hs EXCEPT ![h] = [r0 EXCEPT !.pc = "o_gh_u"]]
                 /\ clientBody' = FaultBody("getHandleForUserid", h)
            [] o = "ok" ->
                 /\ r.l # EmptyStr
                 /\ hs' = [hs EXCEPT ![h] = [r0 EXCEPT !.pc = "o_gh_u"]]
                 /\ clientBody' = ResponseBody("getHandleForUserid", h, OperatorHandle)
       /\ UNCHANGED <<file, nTickets, closed, nEvents, lastWriter, upserted>>

\* getHandle 250-255.
getHandleUnmarshal(h) ==
    LET r == hs[h]
    IN /\ r.pc = "o_gh_u"
       /\ hs' = [hs EXCEPT ![h] =
                    IF clientBody.fault
                    THEN attemptFailed(r, RemoteErr("getHandleForUserid", "fault"))
                    ELSE [returned(r) EXCEPT
                             !.hd = decodeBody(clientBody, "getHandleForUserid", EmptyStr),
                             !.pc = "o_cr"]]
       /\ UNCHANGED <<file, clientBody, nTickets, closed, nEvents, lastWriter, upserted>>

\* The fields of the inbound Problem the model does not enumerate: requests
\* for different problems carry different category codes, detail texts and
\* titles.
Pcat(p) == <<"pcat of ", p.ProblemID>>
ProblemDetailsText(p) == <<"details of ", p.ProblemID>>
ProblemTitle(p) == <<"title of ", p.ProblemID>>
\* SDMHandler 117: the title of the ticket.
title(p) ==
    <<"Dynatrace - ">> \o ProblemTitle(p) \o <<" (Problem ID: ", p.ProblemID,
      ", State: ", p.State, ")">>

\* openTicket 399-423: attrs, built from the handle getHandle returned and
\* the arguments description, summary and pcat.
openAttrs(hd, description, summary, pcat) ==
    << <<"customer">>, hd,
       <<"category">>, <<"pcat:">> \o pcat,
       <<"description">>, description,
       <<"summary">>, summary,
       <<"urgency">>, <<"2">>,
       <<"impact">>, <<"4">>,
       <<"group">>, <<"5FA1B7BE4CFA2E4C9B19E115AE49A642">>,
       <<"type">>, <<"crt:182">> >>

\* openTicket 425-432 as called at SDMHandler 122: the parameters of
\* createRequest.
createParams(r) ==
    [creatorHandle |-> r.hd,
     attrVals |-> openAttrs(r.hd, ProblemDetailsText(r.problem), title(r.problem),
                            Pcat(r.problem)),
     attributes |-> << >>]

\* closeTicket 350-363: the parameters of updateObject.
closeParams ==
    [creatorHandle |-> EmptyStr,
     attrVals |-> << <<"status">>, <<"RE">>, <<"rootcause">>, <<"rc:400174">> >>,
     attributes |-> << <<"status">>, <<"rootcause">> >>]

\* createRequest 304-327 called from openTicket 425.
createRequestCall(h, o) ==
    LET r == hs[h]
        r0 == issued([r EXCEPT !.sent = createParams(r)], "createRequest", r.l)
    IN /\ r.pc = "o_cr"
       /\ CASE o = "transport" ->
                 /\ hs' = [hs EXCEPT ![h] =
                              attemptFailed(r0, RemoteErr("createRequest", "transport"))]
                 /\ UNCHANGED <<clientBody, nTickets>>
            [] o = "fault" ->
                 /\ hs' = [hs EXCEPT ![h] = [r0 EXCEPT !.pc = "o_cr_u"]]
                 /\ clientBody' = FaultBody("createRequest", h)
                 /\ UNCHANGED nTickets
            [] o = "ok" ->
                 /\ r.l # EmptyStr
                 /\ r.hd # EmptyStr
                 /\ nTickets < MaxTickets
                 /\ nTickets' = nTickets + 1
                 /\ hs' = [hs EXCEPT ![h] =
                              [r0 EXCEPT !.pc = "o_cr_u", !.createRet = Ticket(nTickets + 1),
                                         !.accepted = @ + 1]]
                 /\ clientBody' = ResponseBody("createRequest", h, Ticket(nTickets + 1))
       /\ UNCHANGED <<file, closed, nEvents, lastWriter, upserted>>

\* createRequest 329-335, openTicket 434-442 and the closure 123-126.
createRequestUnmarshal(h) ==
    LET r == hs[h]
    IN /\ r.pc = "o_cr_u"
       /\ hs' = [hs EXCEPT ![h] =
                    IF clientBody.fault
                    THEN attemptFailed(r, RemoteErr("createRequest", "fault"))
                    ELSE openAttemptDone(returned(r),
                                         decodeBody(clientBody, "createRequest", ZeroTicket),
                                         NoErr)]
       /\ UNCHANGED <<file, clientBody, nTickets, closed, nEvents, lastWriter, upserted>>

\* updateObject 280-292 called from closeTicket 363.
updateObjectCall(h, o) ==
    LET r == hs[h]
        r0 == issued([r EXCEPT !.sent = closeParams], "updateObject", r.l)
        obj == r.ticket.NewRequestHandle
    IN /\ r.pc = "c_uo"
       /\ CASE o = "transport" ->
                 /\ hs' = [hs EXCEPT ![h] =
                              attemptFailed(r0, RemoteErr("updateObject", "transport"))]
                 /\ UNCHANGED <<clientBody, closed>>
            [] o = "fault" ->
                 /\ hs' = [hs EXCEPT ![h] = [r0 EXCEPT !.pc = "c_uo_u"]]
                 /\ clientBody' = FaultBody("updateObject", h)
                 /\ UNCHANGED closed
            [] o = "ok" ->
                 /\ r.l # EmptyStr
                 /\ IsRequestHandle(obj)
                 /\ closed' = closed \cup {obj[2]}
                 /\ hs' = [hs EXCEPT ![h] = [r0 EXCEPT !.pc = "c_uo_u"]]
                 /\ clientBody' = ResponseBody("updateObject", h, <<"updated">>)
       /\ UNCHANGED <<file, nTickets, nEvents, lastWriter, upserted>>

\* updateObject 294-300, closeTicket 365-373 and the closure 153-156.
updateObjectUnmarshal(h) ==
    LET r == hs[h]
    IN /\ r.pc = "c_uo_u"
       /\ hs' = [hs EXCEPT ![h] =
                    IF clientBody.fault
                    THEN attemptFailed(r, RemoteErr("updateObject", "fault"))
                    ELSE closeAttemptDone(returned(r), NoErr)]
       /\ UNCHANGED <<file, clientBody, nTickets, closed, nEvents, lastWriter, upserted>>

\* --------------------------------------------------------- Association Store
\* os.Open("storage.json") at 182 (lookup) and 213 (upsert): it fails when
\* the file does not exist, and the code then goes on to os.Create.
openStorage(h, pcHere, pcCreate, pcRead) ==
    /\ hs[h].pc = pcHere
    /\ hs' = [hs EXCEPT ![h] =
                 [@ EXCEPT !.opened = @ + 1,
                           !.pc = IF file.kind = "absent" THEN pcCreate ELSE pcRead]]
    /\ UNCHANGED <<file, clientBody, nTickets, closed, nEvents, lastWriter, upserted>>

\* os.Create("storage.json") at 185 and 216: creates the file, or truncates
\* the one that exists by now.
createStorage(h, pcHere, pcRead) ==
    /\ hs[h].pc = pcHere
    /\ file' = EmptyFile
    /\ lastWriter' = h
    /\ hs' = [hs EXCEPT ![h] =
                 [@ EXCEPT !.wrote = @ + mappingChange(file, file'), !.pc = pcRead]]
    /\ UNCHANGED <<clientBody, nTickets, closed, nEvents, upserted>>

\* getTicketNumberFromStorage 178-189.
lookupOpen(h) == openStorage(h, "lk_open", "lk_create", "lk_read")
lookupCreate(h) == createStorage(h, "lk_create", "lk_read")

\* getTicketNumberFromStorage 193-206 and SDMHandler 146-148: read and decode
\* the file, look the problem up, and start the close flow if it is there.
\* afterLookup without the test of 147: the close flow starts on a nil ticket.
afterLookupNoNilCheck(r, t) ==
    [r EXCEPT !.ticket = t, !.attempt = 1, !.pc = "c_login"]

\* SDMHandler 146-148: the close flow starts only for a ticket that was found.
afterLookup(r, t) ==
    IF t = NilTicket THEN [r EXCEPT !.pc = "respond"]
    ELSE [r EXCEPT !.ticket = t, !.attempt = 1, !.pc = "c_login"]

lookupRead(h) ==
    LET r == hs[h]
        st == loadStorage(file)
    IN /\ r.pc = "lk_read"
       /\ hs' = [hs EXCEPT ![h] =
                    afterLookup([r EXCEPT !.storage = st],
                                lookupTicket(st, r.problem.ProblemID))]
       /\ UNCHANGED <<file, clientBody, nTickets, closed, nEvents, lastWriter, upserted>>

\* storeNewProblem 209-220.
storeOpen(h) == openStorage(h, "st_open", "st_create", "st_read")
storeCreate(h) == createStorage(h, "st_create", "st_read")

\* storeNewProblem 224-232: read and decode the file; the assignment at 232
\* panics on a nil map, which ends the invocation with nothing written to
\* the caller (net/http recovers the panic and drops the connection).
storeRead(h) ==
    LET r == hs[h]
        st == loadStorage(file)
    IN /\ r.pc = "st_read"
       /\ hs' = [hs EXCEPT ![h] =
                    IF st.isnil
                    THEN finished([r EXCEPT !.panicked = TRUE])
                    ELSE [r EXCEPT !.storage = st, !.pc = "st_trunc"]]
       /\ UNCHANGED <<file, clientBody, nTickets, closed, nEvents, lastWriter, upserted>>

\* newSnapshot without the assignment of 232.
newSnapshotNoAssign(r) == r.storage

\* The snapshot storeNewProblem marshals at 234: what it loaded, with the
\* new association assigned.
newSnapshot(r) == assignTicket(r.storage, r.problem.ProblemID, r.ticket)

\* ioutil.WriteFile at 235 opens storage.json with O_TRUNC ...
storeTruncate(h) ==
    /\ hs[h].pc = "st_trunc"
    /\ file' = EmptyFile
    /\ lastWriter' = h
    /\ hs' = [hs EXCEPT ![h] =
                 [@ EXCEPT !.wrote = @ + mappingChange(file, file'), !.pc = "st_write"]]
    /\ UNCHANGED <<clientBody, nTickets, closed, nEvents, upserted>>

\* ... and then writes the document; SDMHandler 142 sets the status.
storeWrite(h) ==
    /\ hs[h].pc = "st_write"
    /\ file' = marshalStorage(newSnapshot(hs[h]))
    /\ lastWriter' = h
    /\ upserted' = [upserted EXCEPT ![hs[h].problem.ProblemID] = hs[h].ticket]
    /\ hs' = [hs EXCEPT ![h] =
                 [@ EXCEPT !.wrote = @ + mappingChange(file, file'), !.status = 200,
                           !.pc = "respond"]]
    /\ UNCHANGED <<clientBody, nTickets, closed, nEvents>>

\* ------------------------------------------------------------ specification
Step(h, env, bodies, limit) ==
    \/ \E body \in bodies : Receive(h, body, limit)
    \/ \E o \in env["login"] : loginCall(h, o)
    \/ loginUnmarshal(h)
    \/ \E o \in env["getHandleForUserid"] : getHandleCall(h, o)
    \/ getHandleUnmarshal(h)
    \/ \E o \in env["createRequest"] : createRequestCall(h, o)
    \/ createRequestUnmarshal(h)
    \/ \E o \in env["updateObject"] : updateObjectCall(h, o)
    \/ updateObjectUnmarshal(h)
    \/ lookupOpen(h)
    \/ lookupCreate(h)
    \/ lookupRead(h)
    \/ storeOpen(h)
    \/ storeCreate(h)
    \/ storeRead(h)
    \/ storeTruncate(h)
    \/ storeWrite(h)
    \/ Respond(h)

\* Two requests, concurrent or one after the other, with every outcome of
\* every remote call.
Next == \E h \in Handlers : Step(h, AnyOutcome, Bodies, Cardinality(Handlers))

Spec == Init /\ [][Next]_vars

\* Two requests, one at a time, over every content storage.json can start
\* with.
NextSeq ==
    \E h \in Handlers :
        /\ \A g \in Handlers \ {h} : hs[g].pc \in {"idle", "done"}
        /\ Step(h, AnyOutcome, Bodies, Cardinality(Handlers))

SpecSeq == InitAny /\ [][NextSeq]_vars

\* Three OPEN or RESOLVED requests, two of them at a time, against a backend
\* that answers every call of the create flow.
NextThree ==
    \E h \in Handlers :
        Step(h, CreateAnswered, {b \in Problems : b.State \in {"OPEN", "RESOLVED"}},
             Cardinality(Handlers) + 1)

SpecThree == Init /\ [][NextThree]_vars

\* A backend that answers every call.
AllOk == [op \in Ops |-> {"ok"}]
\* The storage.json an earlier run of the process left: P1 is associated
\* with a ticket opened then.
PriorDoc == marshalStorage(MapOf("P1" :> Ticket(0)))

\* Three OPEN or RESOLVED requests, two of them at a time, every remote call
\* answered, on a first run or after a restart.
NextRestart ==
    \E h \in Handlers :
        Step(h, AllOk, {b \in Problems : b.State \in {"OPEN", "RESOLVED"}},
             Cardinality(Handlers) + 1)

SpecRestart == InitWith({AbsentFile, PriorDoc}) /\ [][NextRestart]_vars

\* ===================================================================== claims
\* The request h serves has reached this point of SDMHandler or passed it.
Ended(h) == hs[h].pc = "done"
IsOpen(h) == hs[h].pc # "idle" /\ ~hs[h].problem.bad /\ hs[h].problem.State = "OPEN"
IsResolved(h) ==
    hs[h].pc # "idle" /\ ~hs[h].problem.bad /\ hs[h].problem.State = "RESOLVED"
\* try.Do has returned to SDMHandler.
TryReturned(h) ==
    /\ hs[h].attempt > 0
    /\ hs[h].pc \in {"st_open", "st_create", "st_read", "st_trunc", "st_write",
                     "respond", "done"}
\* h takes the step that ends its invocation.
Returns(h) == hs[h].pc # "done" /\ hs'[h].pc = "done"

\* C1: when the handler of an OPEN event whose create flow succeeded returns,
\* storage.json maps the event's problemID to the ticket reference the
\* successful createRequest returned, and the handler has written exactly the
\* Outcome error=false, "Opened ticket: <number>".
C1_OpenSuccessStored ==
    [][\A h \in Handlers :
          (Returns(h) /\ IsOpen(h) /\ hs[h].ticket # NilTicket)
              => /\ hs'[h].out = <<OpenedResponse(hs[h].createRet)>>
                 /\ storedTicket(file', hs[h].problem.ProblemID) = hs[h].createRet]_vars

\* C2: when the handler of a RESOLVED event that found an association and
\* whose close flow succeeded returns, it has written the Outcome
\* error=false, "Closed ticket: <number>", and none of its steps changed what
\* the store maps any problemID to.
C2_ClosedStoreUnchanged ==
    \A h \in Handlers :
        (Ended(h) /\ IsResolved(h) /\ hs[h].ticket # NilTicket /\ hs[h].err = NoErr)
            => /\ hs[h].out = <<ClosedResponse(hs[h].ticket)>>
               /\ hs[h].wrote = 0

\* C3: a RESOLVED event whose problemID the lookup did not find starts no
\* flow and issues no remote call, and the handler writes the default
\* Outcome (error=false, empty message).
C3_ResolvedUnknownNoCalls ==
    \A h \in Handlers :
        (IsResolved(h) /\ hs[h].pc \in {"respond", "done"} /\ hs[h].ticket = NilTicket)
            => /\ hs[h].invocations = 0
               /\ hs[h].calls = << >>
               /\ hs[h].resp = ZeroResponse
               /\ (Ended(h) => hs[h].out = <<ZeroResponse>>)

C3_Witness ==
    \E h \in Handlers :
        /\ Ended(h) /\ IsResolved(h) /\ hs[h].ticket = NilTicket
        /\ hs[h].opened = 1
        /\ hs[h].out = <<ZeroResponse>>

\* C4: once try.Do has returned, a flow that succeeded after k failures was
\* invoked exactly k+1 times with k < MaxRetries, and a flow that never
\* succeeded was invoked exactly MaxRetries times, each of them a failure;
\* no flow is ever invoked more than MaxRetries times.
C4_RetryCount ==
    \A h \in Handlers :
        /\ hs[h].invocations <= MaxRetries
        /\ TryReturned(h) =>
              IF hs[h].err = NoErr
              THEN /\ hs[h].invocations = hs[h].failures + 1
                   /\ hs[h].failures < MaxRetries
              ELSE /\ hs[h].err = ErrMaxRetriesReached
                   /\ hs[h].invocations = MaxRetries
                   /\ hs[h].failures = MaxRetries

C4_Witness ==
    /\ \E h \in Handlers :
          TryReturned(h) /\ hs[h].err = NoErr /\ hs[h].failures = MaxRetries - 1
    /\ \E h \in Handlers :
          TryReturned(h) /\ hs[h].err # NoErr /\ hs[h].invocations = MaxRetries

\* C5: when every attempt of the create flow or of the close flow failed, the
\* Outcome written has error=true and a message that carries MaxRetries and
\* the text of the error the last failed attempt returned.
C5_ExhaustedCarriesLastError ==
    \A h \in Handlers :
        (Ended(h) /\ hs[h].attempt > 0 /\ hs[h].err # NoErr)
            => hs[h].out = << IF IsOpen(h) THEN OpenFailedResponse(hs[h].ferr)
                              ELSE CloseFailedResponse(hs[h].ticket, hs[h].ferr) >>

\* C6: when the retry bound is exhausted the handler has changed nothing in
\* the store: no step of an OPEN handler whose create flow never succeeded
\* opened storage.json, and no step of a RESOLVED handler whose close flow
\* never succeeded changed what the store maps any problemID to.
C6_ExhaustedStoreUnchanged ==
    \A h \in Handlers :
        (Ended(h) /\ hs[h].attempt > 0 /\ hs[h].err # NoErr)
            => /\ hs[h].wrote = 0
               /\ IsOpen(h) => hs[h].opened = 0

\* The upsert of h has returned and nothing has written storage.json since.
UpsertJustDone(h) ==
    /\ IsOpen(h) /\ hs[h].pc = "respond"
    /\ hs[h].err = NoErr
    /\ lastWriter = h

\* C7: right after an upsert of (problemID, ref), a lookup finds exactly ref
\* for problemID and, for every other problemID, what the snapshot the upsert
\* loaded held; and reloading the persisted document gives the mapping that
\* was marshalled.
C7_StoreRoundTrip ==
    \A h \in Handlers :
        UpsertJustDone(h) =>
            /\ \A id \in ProblemIDs :
                  storedTicket(file, id) =
                      IF id = hs[h].problem.ProblemID THEN hs[h].ticket
                      ELSE lookupTicket(hs[h].storage, id)
            /\ loadStorage(file) = newSnapshot(hs[h])

\* An upsert has just added a second problemID to a store that held one.
C7_Witness ==
    \E h \in Handlers :
        /\ UpsertJustDone(h)
        /\ \E id \in ProblemIDs \ {hs[h].problem.ProblemID} :
              lookupTicket(hs[h].storage, id) # NilTicket
        /\ Len(file.entries) = Cardinality(ProblemIDs)

\* C8: whatever storage.json holds that is not a usable document, a lookup
\* finds nothing and an upsert completes normally and leaves a document that
\* holds exactly the upserted entry.
C8_UnusableFileIsEmptyStore ==
    \A h \in Handlers :
        /\ (IsOpen(h) /\ hs[h].ticket # NilTicket) => ~hs[h].panicked
        /\ (UpsertJustDone(h) /\ hs[h].storage \in {EmptyMap, NilMap})
              => file = marshalStorage(MapOf(hs[h].problem.ProblemID :> hs[h].ticket))
        /\ (IsResolved(h) /\ hs[h].pc \notin {"lk_open", "lk_create", "lk_read"}
               /\ hs[h].storage \in {EmptyMap, NilMap})
              => hs[h].ticket = NilTicket

\* The remote calls of one attempt of each flow, in order.
FlowOps(h) ==
    IF IsOpen(h) THEN <<"login", "getHandleForUserid", "createRequest">>
    ELSE <<"login", "updateObject">>

\* C9: the calls of every attempt are a prefix of the flow's sequence, every
\* call but the last one issued returned without error, and every call after
\* login carries the token the backend returned to the login of this attempt.
C9_SessionProtocol ==
    \A h \in Handlers :
        LET c == hs[h].calls
        IN /\ Len(c) <= Len(FlowOps(h))
           /\ \A i \in 1..Len(c) :
                 /\ c[i].op = FlowOps(h)[i]
                 /\ i < Len(c) => c[i].ok
                 /\ i > 1 => (c[i].sid # EmptyStr /\ c[i].sid = hs[h].loginRet)

\* C10: a request whose State is neither OPEN nor RESOLVED starts no flow,
\* issues no remote call, never opens or changes storage.json, and is
\* answered with the default Outcome.
C10_OtherStateNoOp ==
    \A h \in Handlers :
        (hs[h].pc # "idle" /\ ~hs[h].problem.bad
            /\ hs[h].problem.State \notin {"OPEN", "RESOLVED"})
            => /\ hs[h].pc \in {"respond", "done"}
               /\ hs[h].invocations = 0 /\ hs[h].calls = << >>
               /\ hs[h].opened = 0 /\ hs[h].wrote = 0
               /\ hs[h].resp = ZeroResponse
               /\ Ended(h) => hs[h].out = <<ZeroResponse>>

C10_Witness ==
    \E h \in Handlers :
        /\ Ended(h) /\ ~hs[h].problem.bad /\ hs[h].problem.State = "MERGED"
        /\ hs[h].out = <<ZeroResponse>>
        /\ file # AbsentFile

\* The request h serves could not be decoded.
IsBad(h) == hs[h].pc # "idle" /\ hs[h].problem.bad
\* h is the one that takes this step.
Steps(h) == hs'[h] # hs[h]
\* The backend has set the request of ticket t to resolved.
IsClosed(t) == IsRequestHandle(t.NewRequestHandle) /\ t.NewRequestHandle[2] \in closed

\* C11: an invocation makes at most MaxRetries attempts of its flow, writes
\* nothing to the caller before it ends, and has written exactly one Outcome
\* when it has ended, on every path.
C11_ExactlyOneOutcome ==
    \A h \in Handlers :
        /\ hs[h].invocations <= MaxRetries
        /\ hs[h].pc \notin {"done"} => hs[h].out = << >>
        /\ Ended(h) => Len(hs[h].out) = 1

\* C12: a request whose body cannot be decoded is answered with status 400
\* and the Outcome error=true "Could not parse ...", and its handler issues
\* no remote call and never opens or changes storage.json.
C12_ParseError ==
    \A h \in Handlers :
        IsBad(h) =>
            /\ Ended(h)
            /\ hs[h].out = <<ParseErrorResponse>>
            /\ hs[h].out[1].Error
            /\ hs[h].status = 400
            /\ hs[h].invocations = 0 /\ hs[h].calls = << >>
            /\ hs[h].opened = 0 /\ hs[h].wrote = 0

\* A parse error answered while another handler is between truncating and
\* writing storage.json.
C12_Witness ==
    \E h \in Handlers :
        /\ IsBad(h) /\ Ended(h)
        /\ \E g \in Handlers \ {h} : hs[g].pc = "st_write"

\* The upserts of h and g have both returned, for different problemIDs, and
\* each loaded its snapshot before the other had persisted.
Overlapped(h, g) ==
    /\ h # g
    /\ IsOpen(h) /\ hs[h].pc = "respond" /\ hs[h].err = NoErr
    /\ IsOpen(g) /\ hs[g].pc = "respond" /\ hs[g].err = NoErr
    /\ hs[h].problem.ProblemID # hs[g].problem.ProblemID
    /\ lookupTicket(hs[h].storage, hs[g].problem.ProblemID) = NilTicket
    /\ lookupTicket(hs[g].storage, hs[h].problem.ProblemID) = NilTicket

\* C13: when the upserts of two OPEN events with different problemIDs
\* overlap, both handlers are about to answer "Opened ticket", and the
\* persisted store holds the entry of the handler that wrote last and no
\* entry for the other problemID.
C13_LostUpdate ==
    \A h, g \in Handlers :
        (Overlapped(h, g) /\ lastWriter = g)
            => /\ hs[h].resp = OpenedResponse(hs[h].ticket)
               /\ hs[g].resp = OpenedResponse(hs[g].ticket)
               /\ storedTicket(file, hs[g].problem.ProblemID) = hs[g].ticket
               /\ storedTicket(file, hs[h].problem.ProblemID) = NilTicket

\* Both handlers have answered "Opened ticket" and the store has lost the
\* entry of one of them.
C13_Witness ==
    \E h, g \in Handlers :
        /\ h # g /\ Ended(h) /\ Ended(g) /\ IsOpen(h) /\ IsOpen(g)
        /\ hs[h].problem.ProblemID # hs[g].problem.ProblemID
        /\ hs[h].ticket = Ticket(1) /\ hs[g].ticket = Ticket(2)
        /\ hs[h].out = <<OpenedResponse(hs[h].ticket)>>
        /\ hs[g].out = <<OpenedResponse(hs[g].ticket)>>
        /\ storedTicket(file, hs[h].problem.ProblemID) = NilTicket
        /\ storedTicket(file, hs[g].problem.ProblemID) = hs[g].ticket

\* h has loaded the snapshot in storeNewProblem and not yet persisted it.
InCycle(h) == hs[h].pc \in {"st_trunc", "st_write"}

\* C14: no two handlers are at the same time between loading the snapshot
\* and persisting it, and no lookup or upsert reads storage.json while the
\* write of another handler has truncated it and not yet written it.
C14_MutualExclusion ==
    [][\A h \in Handlers : \A g \in Handlers \ {h} :
          /\ ~(InCycle(h)' /\ InCycle(g)')
          /\ (Steps(h) /\ hs[h].pc \in {"lk_read", "st_read"})
                => hs[g].pc # "st_write"]_vars

\* C15: what a handler holds as the result of a remote operation was decoded
\* from the response to its own call: the session token is the one the
\* backend gave its login, the caller handle answers its getHandleForUserid,
\* and the ticket reference is the one its createRequest was answered with.
C15_OwnResponse ==
    \A h \in Handlers :
        /\ hs[h].l # EmptyStr => hs[h].l = hs[h].loginRet
        /\ hs[h].pc = "o_cr" => hs[h].hd = OperatorHandle
        /\ (IsOpen(h) /\ TryReturned(h) /\ hs[h].err = NoErr)
              => hs[h].ticket = hs[h].createRet

\* C16: an upsert replaces the reference stored for a problemID only when
\* the ticket it referred to has been closed.
C16_OneLiveTicket ==
    \A h \in Handlers :
        UpsertJustDone(h) =>
            LET old == lookupTicket(hs[h].storage, hs[h].problem.ProblemID)
            IN (IsRequestHandle(old.NewRequestHandle) /\ old # hs[h].ticket)
                  => IsClosed(old)

\* C17: the ticket a lookup hands to the close flow is the one the most
\* recent completed upsert recorded for the problemID, and the Outcome of
\* the RESOLVED handler names the number of the ticket the lookup found.
C17_CloseTargetsLatestUpsert ==
    [][\A h \in Handlers :
          /\ (hs[h].pc = "lk_read" /\ hs'[h].pc = "c_login")
                => hs'[h].ticket = upserted[hs[h].problem.ProblemID]
          /\ (Returns(h) /\ IsResolved(h) /\ hs[h].ticket # NilTicket)
                => hs'[h].out \in
                      {<<ClosedResponse(hs[h].ticket)>>,
                       <<CloseFailedResponse(hs[h].ticket, ErrMaxRetriesReached)>>}]_vars

\* C18: the backend accepts at most one createRequest call of the handler
\* of one OPEN event.
C18_OneTicketPerOpen ==
    \A h \in Handlers : hs[h].accepted <= 1

\* C19: no step of a lookup changes what the store maps any problemID to.
C19_LookupReadOnly ==
    [][\A h \in Handlers :
          (Steps(h) /\ hs[h].pc \in {"lk_open", "lk_create", "lk_read"})
              => \A id \in ProblemIDs :
                    storedTicket(file', id) = storedTicket(file, id)]_vars

\* C20: when an OPEN event and, received after it, a RESOLVED event for the
\* same problemID have both been handled with every remote call answered
\* without error, the backend has been asked to close the ticket that OPEN
\* created (only the RESOLVED handler issues that call, so once it has
\* returned the call is never issued).
C20_OpenThenResolvedCloses ==
    \A h, g \in Handlers :
        (/\ Ended(h) /\ IsOpen(h) /\ Ended(g) /\ IsResolved(g)
         /\ hs[h].ev < hs[g].ev
         /\ hs[h].problem.ProblemID = hs[g].problem.ProblemID
         /\ hs[h].failures = 0 /\ hs[g].failures = 0
         /\ hs[h].out = <<OpenedResponse(hs[h].createRet)>>)
            => IsClosed(hs[h].createRet)

\* C21: every createRequest call carries, as attrVals, the sixteen elements
\* customer, handle, category, pcat:<code>, description, <details>, summary,
\* <title>, urgency, 2, impact, 4, group, <group id>, type, <type code> in
\* this order, the handle being the one the backend returns to
\* getHandleForUserid and also the creatorHandle; every updateObject call
\* carries attrVals status, RE, rootcause, rc:400174 and attributes status,
\* rootcause.
C21_AttrValsOrder ==
    \A h \in Handlers :
        hs[h].sent # NoParams =>
            LET p == hs[h].problem
                a == hs[h].sent.attrVals
            IN IF IsOpen(h)
               THEN /\ Len(a) = 16
                    /\ a[1] = <<"customer">> /\ a[2] = OperatorHandle
                    /\ a[3] = <<"category">> /\ a[4] = <<"pcat:", "pcat of ", p.ProblemID>>
                    /\ a[5] = <<"description">> /\ a[6] = <<"details of ", p.ProblemID>>
                    /\ a[7] = <<"summary">>
                    /\ a[8] = <<"Dynatrace - ", "title of ", p.ProblemID,
                                " (Problem ID: ", p.ProblemID, ", State: ", "OPEN", ")">>
                    /\ a[9] = <<"urgency">> /\ a[10] = <<"2">>
                    /\ a[11] = <<"impact">> /\ a[12] = <<"4">>
                    /\ a[13] = <<"group">>
                    /\ a[14] = <<"5FA1B7BE4CFA2E4C9B19E115AE49A642">>
                    /\ a[15] = <<"type">> /\ a[16] = <<"crt:182">>
                    /\ hs[h].sent.creatorHandle = OperatorHandle
               ELSE /\ a = << <<"status">>, <<"RE">>, <<"rootcause">>, <<"rc:400174">> >>
                    /\ hs[h].sent.attributes = << <<"status">>, <<"rootcause">> >>

====
